---- MODULE Spec2Model ----
(***************************************************************************)
(* Model of the dividend dashboard: the two quote loaders                  *)
(* (data_loader.py RobustDataLoader, app.py DataLoader), the SQLite store  *)
(* (app.py / database.py Database) and the refresh callback                *)
(* atualizar_dados of app.py.                                              *)
(*                                                                         *)
(* Numbers.  Python floats are modelled by exact rationals [n, d] in       *)
(* lowest terms with d >= 0.  d = 0 encodes the IEEE specials that numpy   *)
(* division produces instead of raising: 1/0 = inf, -1/0 = -inf, 0/0 = nan.*)
(* Strings on which the code works character by character (the symbols)   *)
(* are sequences of one-character strings; display names, on which it does *)
(* not, are one-chunk sequences such as <<"Vale SA">>.                     *)
(***************************************************************************)
EXTENDS Integers, Sequences, FiniteSets, TLC

(* ------------------------------ bounds -------------------------------- *)
\* longest price history the provider answers with (period="2d" / "1d")
MaxHist == 2
\* longest dividend history the provider answers with (tail(4) needs > 4)
MaxDivs == 5

(* ----------------------------- rationals ------------------------------ *)
Abs(x) == IF x < 0 THEN -x ELSE x

Sign(x) == IF x < 0 THEN -1 ELSE IF x > 0 THEN 1 ELSE 0

RECURSIVE GCD(_, _)
GCD(a, b) == IF b = 0 THEN a ELSE GCD(b, a % b)

\* the float n/d in canonical form
Rat(n, d) ==
    IF d = 0 THEN [n |-> Sign(n), d |-> 0]
    ELSE LET g == GCD(Abs(n), Abs(d))
             s == Sign(d)
         IN  [n |-> (s * n) \div g, d |-> (s * d) \div g]

Zero == Rat(0, 1)

NaN == Rat(0, 0)

IsFinite(x) == x.d # 0

RAdd(x, y) == Rat(x.n * y.d + y.n * x.d, x.d * y.d)

RSub(x, y) == Rat(x.n * y.d - y.n * x.d, x.d * y.d)

RMul(x, y) == Rat(x.n * y.n, x.d * y.d)

RDiv(x, y) == Rat(x.n * y.d, x.d * y.n)

\* x > y on floats: false as soon as a nan is involved
RGt(x, y) ==
    /\ x # NaN
    /\ y # NaN
    /\ IF IsFinite(x) /\ IsFinite(y) THEN x.n * y.d > y.n * x.d
       ELSE IF IsFinite(y) THEN x.n > 0
       ELSE IF IsFinite(x) THEN y.n < 0
       ELSE x.n > y.n

RGe(x, y) == x # NaN /\ y # NaN /\ (x = y \/ RGt(x, y))

\* round(x, 2): nearest multiple of 0.01, ties to the even one; inf and nan
\* are returned unchanged
Round2(x) ==
    IF ~IsFinite(x) THEN x
    ELSE LET num == x.n * 100
             q == num \div x.d
             r == num % x.d
             c == IF 2 * r > x.d THEN q + 1
                  ELSE IF 2 * r < x.d THEN q
                  ELSE IF q % 2 = 0 THEN q ELSE q + 1
         IN  Rat(c, 100)

(* ------------------------------ strings ------------------------------- *)
\* needle in hay (Python's `in` on str)
Contains(hay, needle) ==
    \E i \in 0..(Len(hay) - Len(needle)) :
        SubSeq(hay, i + 1, i + Len(needle)) = needle

\* str.replace(old, new): leftmost non-overlapping occurrences, old # ''
RECURSIVE Replace(_, _, _)
Replace(s, old, new) ==
    IF Len(s) < Len(old) THEN s
    ELSE IF SubSeq(s, 1, Len(old)) = old
         THEN new \o Replace(SubSeq(s, Len(old) + 1, Len(s)), old, new)
         ELSE <<s[1]>> \o Replace(Tail(s), old, new)

SA == <<".", "S", "A">>

MXRF11 == <<"M", "X", "R", "F", "1", "1">> \o SA
HGLG11 == <<"H", "G", "L", "G", "1", "1">> \o SA
KNRI11 == <<"K", "N", "R", "I", "1", "1">> \o SA
VISC11 == <<"V", "I", "S", "C", "1", "1">> \o SA
RBRP11 == <<"R", "B", "R", "P", "1", "1">> \o SA
SDIL11 == <<"S", "D", "I", "L", "1", "1">> \o SA
BOVA11 == <<"B", "O", "V", "A", "1", "1">> \o SA
DIVO11 == <<"D", "I", "V", "O", "1", "1">> \o SA
SMAL11 == <<"S", "M", "A", "L", "1", "1">> \o SA
IVVB11 == <<"I", "V", "V", "B", "1", "1">> \o SA
VALE3 == <<"V", "A", "L", "E", "3">> \o SA
PETR4 == <<"P", "E", "T", "R", "4">> \o SA
BBAS3 == <<"B", "B", "A", "S", "3">> \o SA
ITUB4 == <<"I", "T", "U", "B", "4">> \o SA
TAEE11 == <<"T", "A", "E", "E", "1", "1">> \o SA
WEGE3 == <<"W", "E", "G", "E", "3">> \o SA

(* ----------------------------- registry ------------------------------- *)
\* a dict in insertion order: a sequence of <<key, value>> items
RobustRegistry ==
    << <<"FII", <<MXRF11, HGLG11, KNRI11, VISC11, RBRP11, SDIL11>> >>,
       <<"ETF", <<BOVA11, DIVO11, SMAL11, IVVB11>> >>,
       <<"ACAO", <<VALE3, PETR4, BBAS3, ITUB4, TAEE11>> >> >>

AppRegistry ==
    << <<"FII", <<MXRF11, HGLG11, KNRI11, VISC11, RBRP11, SDIL11>> >>,
       <<"ETF", <<BOVA11, DIVO11, SMAL11, IVVB11>> >>,
       <<"ACAO", <<VALE3, PETR4, BBAS3, ITUB4, TAEE11, WEGE3>> >> >>

Range(s) == {s[i] : i \in DOMAIN s}

\* the (tipo, simbolo) pairs in the order the nested for loops visit them
RECURSIVE Pairs(_)
Pairs(reg) ==
    IF reg = <<>> THEN <<>>
    ELSE [i \in DOMAIN reg[1][2] |-> <<reg[1][1], reg[1][2][i]>>]
         \o Pairs(Tail(reg))

\* next((k for k, v in items if simbolo in v), 'OUTRO')
RECURSIVE TipoDe(_, _)
TipoDe(reg, simbolo) ==
    IF reg = <<>> THEN "OUTRO"
    ELSE IF simbolo \in Range(reg[1][2]) THEN reg[1][1]
    ELSE TipoDe(Tail(reg), simbolo)

nomes_fallback ==
    (MXRF11 :> <<"Maxi Renda FII">>) @@ (HGLG11 :> <<"CSHG Logistica">>) @@
    (KNRI11 :> <<"Kinea Renda Imobiliaria">>) @@
    (VISC11 :> <<"Vinci Shopping Centers">>) @@
    (RBRP11 :> <<"RBR Properties">>) @@ (SDIL11 :> <<"SDI Dividendos">>) @@
    (BOVA11 :> <<"ETF Ibovespa">>) @@ (DIVO11 :> <<"ETF Dividendos">>) @@
    (SMAL11 :> <<"ETF Small Caps">>) @@ (IVVB11 :> <<"ETF S&P 500">>) @@
    (VALE3 :> <<"Vale SA">>) @@ (PETR4 :> <<"Petrobras">>) @@
    (BBAS3 :> <<"Banco do Brasil">>) @@ (ITUB4 :> <<"Itau Unibanco">>) @@
    (TAEE11 :> <<"Taesa">>)

mock_prices ==
    (VALE3 :> Rat(6890, 100)) @@ (PETR4 :> Rat(3750, 100)) @@
    (BBAS3 :> Rat(5780, 100)) @@ (ITUB4 :> Rat(3345, 100)) @@
    (TAEE11 :> Rat(4120, 100)) @@ (MXRF11 :> Rat(1025, 100)) @@
    (HGLG11 :> Rat(15830, 100)) @@ (KNRI11 :> Rat(13450, 100)) @@
    (VISC11 :> Rat(9480, 100)) @@ (RBRP11 :> Rat(8690, 100)) @@
    (SDIL11 :> Rat(10675, 100)) @@ (BOVA11 :> Rat(11540, 100)) @@
    (DIVO11 :> Rat(9860, 100)) @@ (SMAL11 :> Rat(5230, 100)) @@
    (IVVB11 :> Rat(24580, 100))

\* dict.get(key, default)
Get(dict, key, default) == IF key \in DOMAIN dict THEN dict[key] ELSE default

\* symbols of each category a modelled collection cycle iterates
MaxPorTipo == 1

\* salvar_ativos calls in one run of the store
MaxChamadas == 2
\* longest list handed to one salvar_ativos call
MaxLote == 2

\* refresh triggers (timer ticks and button clicks) in one run of the app
MaxDisparos == 2
\* registry symbols a modelled cycle of the app iterates
MaxSimbolosApp == 2

(* ------------------------- provider responses ------------------------- *)
\* What yfinance answers for one symbol.  hist: ticker.history() raises or
\* returns bars (oldest first); info: ticker.info raises or returns a dict;
\* divs: ticker.dividends raises or returns the payments (oldest first);
\* crit: the loop body fails before the lookup (requests.Session()).
Bar(open, close) == [Open |-> open, Close |-> close]

Bars ==
    { Bar(Rat(100, 1), Rat(102, 1)), Bar(Rat(102, 1), Rat(100, 1)),
      Bar(Rat(0, 1), Rat(0, 1)), Bar(Rat(10, 1), Rat(4, 1000)) }

SeqsUpTo(S, k) == UNION {[1..m -> S] : m \in 0..k}

Hists ==
    {[ok |-> FALSE, bars |-> <<>>]}
    \cup {[ok |-> TRUE, bars |-> b] : b \in SeqsUpTo(Bars, MaxHist)}

Payments == {Rat(1, 1), Rat(1, 2)}

Divs ==
    {[ok |-> FALSE, v |-> <<>>]}
    \cup {[ok |-> TRUE, v |-> d] : d \in SeqsUpTo(Payments, MaxDivs)}

Infos ==
    { [ok |-> FALSE, d |-> <<>>],
      [ok |-> TRUE, d |-> <<>>],
      [ok |-> TRUE, d |-> [sector |-> "Financial Services"]],
      [ok |-> TRUE, d |-> [longName |-> <<"Provider Long Name">>,
                           sector |-> "Financial Services"]] }

Resp(c, h, i, d) == [crit |-> c, hist |-> h, info |-> i, divs |-> d]

CritResp ==
    Resp(TRUE, [ok |-> FALSE, bars |-> <<>>], [ok |-> FALSE, d |-> <<>>],
         [ok |-> FALSE, v |-> <<>>])

Responses ==
    {CritResp} \cup {Resp(FALSE, h, i, d) : h \in Hists, i \in Infos, d \in Divs}

(* --------------------------- metrics deriver -------------------------- *)
RECURSIVE Sum(_)
Sum(s) == IF s = <<>> THEN Zero ELSE RAdd(s[1], Sum(Tail(s)))

\* Series.tail(k)
TailK(s, k) == IF Len(s) <= k THEN s ELSE SubSeq(s, Len(s) - k + 1, Len(s))

\* Series.mean()
Mean(s) == RDiv(Sum(s), Rat(Len(s), 1))

\* _safe_dividend_calc and _estimate_dividend_yield are the same code
DividendYield(divs, current_price) ==
    IF divs.ok /\ Len(divs.v) > 0 /\ RGt(current_price, Zero)
    THEN RMul(RDiv(RMul(Mean(TailK(divs.v, 4)), Rat(12, 1)), current_price),
              Rat(100, 1))
    ELSE Zero

safe_dividend_calc(divs, current_price) == DividendYield(divs, current_price)

estimate_dividend_yield(divs, current_price) == DividendYield(divs, current_price)

\* _safe_last_dividend and _get_ultimo_dividendo are the same code
UltimoDividendo(divs) ==
    IF divs.ok /\ Len(divs.v) > 0 THEN divs.v[Len(divs.v)] ELSE Zero

\* RobustDataLoader._get_frequencia_pagamento(simbolo)
RobustFrequencia(simbolo) ==
    IF Contains(simbolo, <<"1", "1">>)
    THEN IF Contains(simbolo, <<"F", "I", "I">>) THEN "Mensal" ELSE "Trimestral"
    ELSE "Trimestral/Semestral"

\* DataLoader._get_frequencia_pagamento(tipo)
frequencias ==
    [FII |-> "Mensal", ETF |-> "Trimestral", ACAO |-> "Trimestral/Semestral"]

AppFrequencia(tipo) == Get(frequencias, tipo, "N/A")

\* (preco_atual - preco_anterior) / preco_anterior * 100
Variacao(preco_atual, preco_anterior) ==
    RMul(RDiv(RSub(preco_atual, preco_anterior), preco_anterior), Rat(100, 1))

(* ---------------------------- quote fetcher --------------------------- *)
\* A fetch result is <<>> (None) or <<record>>.
get_mock_price_sem_tabela(simbolo) == Rat(10, 1)

get_mock_price(simbolo) == Get(mock_prices, simbolo, Rat(10, 1))

get_fallback_data(simbolo, now) ==
    << [simbolo |-> Replace(simbolo, SA, <<>>),
        nome |-> Get(nomes_fallback, simbolo, simbolo),
        tipo |-> TipoDe(RobustRegistry, simbolo),
        preco_atual |-> get_mock_price(simbolo),
        dividend_yield |-> Rat(65, 10),
        ultimo_dividendo |-> Rat(50, 100),
        frequencia_pagamento |-> RobustFrequencia(simbolo),
        setor |-> "N/A",
        variacao_dia |-> Zero,
        atualizado_em |-> now] >>

get_yfinance_data(simbolo, resp, now) ==
    IF ~resp.hist.ok \/ Len(resp.hist.bars) < 1 THEN <<>>
    ELSE LET hist == resp.hist.bars
             preco_atual == hist[Len(hist)].Close
             preco_anterior ==
                 IF Len(hist) > 1 THEN hist[Len(hist)].Open ELSE hist[1].Close
             variacao == Variacao(preco_atual, preco_anterior)
             fb == Get(nomes_fallback, simbolo, simbolo)
             nome == IF resp.info.ok THEN Get(resp.info.d, "longName", fb) ELSE fb
             setor == IF resp.info.ok THEN Get(resp.info.d, "sector", "N/A")
                      ELSE "N/A"
             dividend_yield == safe_dividend_calc(resp.divs, preco_atual)
             ultimo_dividendo == UltimoDividendo(resp.divs)
         IN  << [simbolo |-> Replace(simbolo, SA, <<>>),
                 nome |-> nome,
                 tipo |-> TipoDe(RobustRegistry, simbolo),
                 preco_atual |-> Round2(preco_atual),
                 dividend_yield |-> Round2(dividend_yield),
                 ultimo_dividendo |-> Round2(ultimo_dividendo),
                 frequencia_pagamento |-> RobustFrequencia(simbolo),
                 setor |-> setor,
                 variacao_dia |-> Round2(variacao),
                 atualizado_em |-> now] >>

\* One pass of the loop body of RobustDataLoader.get_ativos_info:
\* out is what is appended, slept whether time.sleep(1.5) ran, raised whether
\* the except clause ran.
RobustBody(simbolo, resp, now) ==
    IF resp.crit THEN [out |-> <<>>, slept |-> FALSE, raised |-> TRUE]
    ELSE LET live == get_yfinance_data(simbolo, resp, now)
             dados == IF live = <<>> THEN get_fallback_data(simbolo, now) ELSE live
         IN  [out |-> dados, slept |-> TRUE, raised |-> FALSE]

\* One pass of the loop body of DataLoader.get_ativos_info (app.py)
AppBody(tipo, simbolo, resp, now) ==
    IF resp.crit \/ ~resp.info.ok \/ ~resp.hist.ok
    THEN [out |-> <<>>, slept |-> FALSE, raised |-> TRUE]
    ELSE IF resp.hist.bars = <<>>
    THEN [out |-> <<>>, slept |-> TRUE, raised |-> FALSE]
    ELSE LET hist == resp.hist.bars
             info == resp.info.d
             preco_atual == hist[Len(hist)].Close
             preco_anterior ==
                 IF Len(hist) > 1 THEN hist[Len(hist)].Open ELSE preco_atual
             variacao == Variacao(preco_atual, preco_anterior)
             dividend_yield == estimate_dividend_yield(resp.divs, preco_atual)
             ultimo_dividendo == UltimoDividendo(resp.divs)
         IN  [out |-> << [simbolo |-> Replace(simbolo, SA, <<>>),
                          nome |-> Get(info, "longName", simbolo),
                          tipo |-> tipo,
                          preco_atual |-> preco_atual,
                          dividend_yield |-> dividend_yield,
                          ultimo_dividendo |-> ultimo_dividendo,
                          frequencia_pagamento |-> AppFrequencia(tipo),
                          setor |-> Get(info, "sector", "N/A"),
                          variacao_dia |-> variacao,
                          atualizado_em |-> now] >>,
              slept |-> TRUE, raised |-> FALSE]

(* ------------------------------- store ------------------------------- *)
\* Table ativos: rows in rowid order, each [id, r] with r the ten columns;
\* seq is the AUTOINCREMENT counter (sqlite_sequence).  _init_db creates the
\* table empty and leaves an existing one alone.
EmptyDb == [rows |-> <<>>, seq |-> 0]

\* DELETE of the rows whose simbolo is the given one, the others keep
\* their order
RECURSIVE DeleteSimbolo(_, _)
DeleteSimbolo(rows, simbolo) ==
    IF rows = <<>> THEN <<>>
    ELSE IF rows[1].r.simbolo = simbolo THEN DeleteSimbolo(Tail(rows), simbolo)
    ELSE <<rows[1]>> \o DeleteSimbolo(Tail(rows), simbolo)

\* a save that empties the table first: the store would hold the last
\* snapshot only
InsertIntoEmptied(d, ativo) ==
    [rows |-> <<[id |-> d.seq + 1, r |-> ativo]>>, seq |-> d.seq + 1]

\* INSERT without OR REPLACE would stop at the UNIQUE row already there
InsertOrIgnore(d, ativo) ==
    IF \E i \in DOMAIN d.rows : d.rows[i].r.simbolo = ativo.simbolo THEN d
    ELSE [rows |-> Append(d.rows, [id |-> d.seq + 1, r |-> ativo]),
          seq |-> d.seq + 1]

\* INSERT OR REPLACE INTO ativos (...): the row holding the same UNIQUE
\* simbolo is deleted, the new row gets the next id
InsertOrReplace(d, ativo) ==
    [rows |-> Append(DeleteSimbolo(d.rows, ativo.simbolo),
                     [id |-> d.seq + 1, r |-> ativo]),
     seq |-> d.seq + 1]

\* the for loop of salvar_ativos over ativos[1..k], inside one transaction
RECURSIVE InsertAll(_, _, _)
InsertAll(d, lista, k) ==
    IF k = 0 THEN d
    ELSE InsertOrReplace(InsertAll(d, lista, k - 1), lista[k])

\* salvar_ativos(ativos) as one call.  falha = 0: every insert and
\* conn.commit() succeed.  falha = k > 0: the k-th conn.execute raises, the
\* exception leaves salvar_ativos before conn.commit(), and the connection's
\* open transaction is rolled back when the connection is discarded.
salvar_ativos(d, lista, falha) ==
    LET done == IF falha = 0 THEN Len(lista) ELSE falha - 1
        tx == InsertAll(d, lista, done)
    IN  IF falha = 0 THEN [db |-> tx, raised |-> FALSE]
        ELSE [db |-> d, raised |-> TRUE]

\* ORDER BY dividend_yield ASC, the wrong direction
RECURSIVE OrderByYieldAsc(_)
OrderByYieldAsc(rows) ==
    IF rows = <<>> THEN <<>>
    ELSE LET rest == OrderByYieldAsc(SubSeq(rows, 1, Len(rows) - 1))
             x == rows[Len(rows)]
             p == Cardinality({i \in DOMAIN rest :
                      ~RGt(rest[i].r.dividend_yield, x.r.dividend_yield)})
         IN  SubSeq(rest, 1, p) \o <<x>> \o SubSeq(rest, p + 1, Len(rest))

\* ORDER BY dividend_yield DESC as a stable insertion sort over the rows in
\* rowid order: each row goes after the rows whose yield is >= its own
RECURSIVE OrderByYieldDesc(_)
OrderByYieldDesc(rows) ==
    IF rows = <<>> THEN <<>>
    ELSE LET rest == OrderByYieldDesc(SubSeq(rows, 1, Len(rows) - 1))
             x == rows[Len(rows)]
             p == Cardinality({i \in DOMAIN rest :
                      RGe(rest[i].r.dividend_yield, x.r.dividend_yield)})
         IN  SubSeq(rest, 1, p) \o <<x>> \o SubSeq(rest, p + 1, Len(rest))

\* carregar_ativos(): SELECT * FROM ativos ORDER BY dividend_yield DESC
carregar_ativos(d) == OrderByYieldDesc(d.rows)

(* ------------------------------- state -------------------------------- *)
VARIABLES
    loader,    \* "Robust" (data_loader.py) or "App" (app.py): the loader under test
    alvo,      \* single fetch: the <<tipo, simbolo>> pair being fetched
    resp,      \* single fetch: the provider's answer
    res,       \* single fetch: the loop body's outcome [out, slept, raised]
    pc,        \* single fetch: "start" | "done"
    relogio,   \* logical clock: the last reading datetime.now() returned
    idx,       \* collection cycle: position of the nested for loops (1-based)
    ativos,    \* collection cycle: the list get_ativos_info is building
    log,       \* collection cycle: one entry per loop pass, in order
    cpc,       \* collection cycle: "idle" | "loop" | "returned" | "raised"
    db,        \* store: committed state [rows, seq] of table ativos
    ultimo,    \* store (history): symbol -> record of its latest completed write
    chamadas,  \* store: salvar_ativos calls made so far
    carregado, \* store: what the last carregar_ativos returned
    th,        \* app: per worker thread, the atualizar_dados call it runs
    tx,        \* app: per worker, <<>> or <<working copy>> of its open transaction
    lock,      \* app: the worker holding SQLite's write lock, 0 if none
    disparos,  \* app: refresh triggers fired so far
    sucessos   \* app (history): symbol -> its record in the latest ended cycle
               \* whose snapshot held it, whether or not the store took it

fetchVars == <<alvo, resp, res, pc>>

cycleVars == <<idx, ativos, log, cpc>>

dbVars == <<db, ultimo, chamadas, carregado>>

appVars == <<th, tx, lock, disparos, sucessos>>

vars ==
    <<loader, alvo, resp, res, pc, relogio, idx, ativos, log, cpc,
      db, ultimo, chamadas, carregado, th, tx, lock, disparos, sucessos>>

\* the request threads of the server app.run_server starts
Workers == {1, 2}

Idle == [pc |-> "idle", ativos |-> <<>>, i |-> 0, retorno |-> <<>>]

AppIdle ==
    /\ th = [t \in Workers |-> Idle]
    /\ tx = [t \in Workers |-> <<>>]
    /\ lock = 0
    /\ disparos = 0
    /\ sucessos = <<>>

NoRes == [out |-> <<>>, slept |-> FALSE, raised |-> FALSE]

(* ------------------- one symbol through a loop body ------------------- *)
InitFetch ==
    /\ loader \in {"Robust", "App"}
    /\ alvo \in Range(Pairs(IF loader = "Robust" THEN RobustRegistry
                            ELSE AppRegistry))
    /\ resp = CritResp
    /\ res = NoRes
    /\ pc = "start"
    /\ relogio = 0
    /\ idx = 1
    /\ ativos = <<>>
    /\ log = <<>>
    /\ cpc = "idle"
    /\ db = EmptyDb
    /\ ultimo = <<>>
    /\ chamadas = 0
    /\ carregado = <<>>
    /\ AppIdle

FetchRobust ==
    /\ pc = "start"
    /\ loader = "Robust"
    /\ \E r \in Responses :
        /\ resp' = r
        /\ res' = RobustBody(alvo[2], r, relogio + 1)
    /\ pc' = "done"
    /\ relogio' = relogio + 1
    /\ UNCHANGED <<loader, alvo, cycleVars, dbVars, appVars>>

FetchApp ==
    /\ pc = "start"
    /\ loader = "App"
    /\ \E r \in Responses :
        /\ resp' = r
        /\ res' = AppBody(alvo[1], alvo[2], r, relogio + 1)
    /\ pc' = "done"
    /\ relogio' = relogio + 1
    /\ UNCHANGED <<loader, alvo, cycleVars, dbVars, appVars>>

NextFetch == FetchRobust \/ FetchApp

SpecFetch == InitFetch /\ [][NextFetch]_vars

(* ------------------------ a collection cycle ------------------------- *)
Min(a, b) == IF a < b THEN a ELSE b

\* the registry cut to the first MaxPorTipo symbols of every category
Monitorados(reg) ==
    [i \in DOMAIN reg |->
        <<reg[i][1], SubSeq(reg[i][2], 1, Min(MaxPorTipo, Len(reg[i][2])))>>]

ativos_monitorados(l) ==
    Monitorados(IF l = "Robust" THEN RobustRegistry ELSE AppRegistry)

\* the answers a cycle draws from: body failure, lookup raises, empty history,
\* a full live answer, a live answer whose metadata lookup raises
LiveHist == [ok |-> TRUE, bars |-> <<Bar(Rat(100, 1), Rat(102, 1))>>]

LiveDivs == [ok |-> TRUE, v |-> <<Rat(1, 1), Rat(1, 1), Rat(1, 1), Rat(1, 1)>>]

LiveInfo ==
    [ok |-> TRUE, d |-> [longName |-> <<"Provider Long Name">>,
                         sector |-> "Financial Services"]]

CycleResponses ==
    { CritResp,
      Resp(FALSE, [ok |-> FALSE, bars |-> <<>>], LiveInfo, LiveDivs),
      Resp(FALSE, [ok |-> TRUE, bars |-> <<>>], LiveInfo, LiveDivs),
      Resp(FALSE, LiveHist, LiveInfo, LiveDivs),
      Resp(FALSE, LiveHist, [ok |-> FALSE, d |-> <<>>], LiveDivs) }

LoopBody(l, par, r, now) ==
    IF l = "Robust" THEN RobustBody(par[2], r, now)
    ELSE AppBody(par[1], par[2], r, now)

\* `except Exception as e: print(...); continue`: a pass that raised is
\* caught and the loop goes on to the next symbol
LoopControl_sem_except(b) == IF b.raised THEN "propagate" ELSE "next"

LoopControl(b) == IF b.raised THEN "continue" ELSE "next"

InitCycle ==
    /\ loader \in {"Robust", "App"}
    /\ alvo = <<"FII", MXRF11>>
    /\ resp = CritResp
    /\ res = NoRes
    /\ pc = "start"
    /\ relogio = 0
    /\ idx = 1
    /\ ativos = <<>>
    /\ log = <<>>
    /\ cpc = "loop"
    /\ db = EmptyDb
    /\ ultimo = <<>>
    /\ chamadas = 0
    /\ carregado = <<>>
    /\ AppIdle

\* one pass of the nested for loops of get_ativos_info
CyclePass ==
    /\ cpc = "loop"
    /\ idx <= Len(Pairs(ativos_monitorados(loader)))
    /\ \E r \in CycleResponses :
        LET par == Pairs(ativos_monitorados(loader))[idx]
            b == LoopBody(loader, par, r, relogio + 1)
        IN  /\ ativos' = ativos \o b.out
            /\ log' = Append(log, [par |-> par, resp |-> r, raised |-> b.raised,
                                   slept |-> b.slept, emitted |-> b.out # <<>>])
            /\ cpc' = IF LoopControl(b) = "propagate" THEN "raised" ELSE "loop"
    /\ idx' = idx + 1
    /\ relogio' = relogio + 1
    /\ UNCHANGED <<loader, fetchVars, dbVars, appVars>>

\* `return ativos` once the loops are exhausted
CycleReturn ==
    /\ cpc = "loop"
    /\ idx > Len(Pairs(ativos_monitorados(loader)))
    /\ cpc' = "returned"
    /\ UNCHANGED <<loader, fetchVars, dbVars, appVars, relogio, idx, ativos, log>>

NextCycle == CyclePass \/ CycleReturn

SpecCycle == InitCycle /\ [][NextCycle]_vars

(* --------------------- the store, call by call ------------------------ *)
\* the records a caller may hand to salvar_ativos at clock reading t: live
\* records of two symbols with three different yields
LiveResponses ==
    { Resp(FALSE, LiveHist, LiveInfo, LiveDivs),
      Resp(FALSE, LiveHist, LiveInfo, [ok |-> TRUE, v |-> <<Rat(1, 2)>>]),
      Resp(FALSE, LiveHist, LiveInfo, [ok |-> TRUE, v |-> <<>>]) }

Registros(t) ==
    {AppBody(par[1], par[2], r, t).out[1] :
        par \in {<<"FII", MXRF11>>, <<"ETF", BOVA11>>}, r \in LiveResponses}

\* symbol -> the record of its last write, after a completed salvar_ativos
Registrar(u, lista) ==
    LET novos == {lista[i].simbolo : i \in DOMAIN lista}
        Ult(sim) == CHOOSE i \in DOMAIN lista :
                        /\ lista[i].simbolo = sim
                        /\ \A j \in DOMAIN lista : lista[j].simbolo = sim => j <= i
    IN  [sim \in (DOMAIN u) \cup novos |->
            IF sim \in novos THEN lista[Ult(sim)] ELSE u[sim]]

InitDB ==
    /\ loader = "App"
    /\ alvo = <<"FII", MXRF11>>
    /\ resp = CritResp
    /\ res = NoRes
    /\ pc = "start"
    /\ relogio = 0
    /\ idx = 1
    /\ ativos = <<>>
    /\ log = <<>>
    /\ cpc = "idle"
    /\ db = EmptyDb
    /\ ultimo = <<>>
    /\ chamadas = 0
    /\ carregado = <<>>
    /\ AppIdle

\* a salvar_ativos call that returns
Salvar ==
    /\ chamadas < MaxChamadas
    /\ \E lista \in SeqsUpTo(Registros(chamadas + 1), MaxLote) :
        /\ db' = salvar_ativos(db, lista, 0).db
        /\ ultimo' = Registrar(ultimo, lista)
    /\ chamadas' = chamadas + 1
    /\ UNCHANGED <<loader, fetchVars, cycleVars, appVars, relogio, carregado>>

\* a salvar_ativos call whose k-th insert raises
SalvarFalha ==
    /\ chamadas < MaxChamadas
    /\ \E lista \in SeqsUpTo(Registros(chamadas + 1), MaxLote) :
        \E k \in 1..Len(lista) :
            db' = salvar_ativos(db, lista, k).db
    /\ chamadas' = chamadas + 1
    /\ UNCHANGED <<loader, fetchVars, cycleVars, appVars, relogio, ultimo, carregado>>

Carregar ==
    /\ carregado' = carregar_ativos(db)
    /\ UNCHANGED <<loader, fetchVars, cycleVars, appVars, relogio, db, ultimo, chamadas>>

NextDB == Salvar \/ SalvarFalha \/ Carregar

SpecDB == InitDB /\ [][NextDB]_vars

(* ------------------- the refresh callback of app.py ------------------- *)
\* the pairs a modelled cycle of the app iterates: the first MaxSimbolosApp
\* of the registry, in its order
AppCiclo ==
    SubSeq(Pairs(AppRegistry), 1, Min(MaxSimbolosApp, Len(Pairs(AppRegistry))))

\* get_ativos_info() as one call: the loop passes 1..k over the pairs, the
\* i-th pass getting the answer rs[i] and reading the clock at now0 + i
RECURSIVE get_ativos_info(_, _, _, _, _)
get_ativos_info(l, pares, rs, k, now0) ==
    IF k = 0 THEN [ativos |-> <<>>, raised |-> FALSE]
    ELSE LET prev == get_ativos_info(l, pares, rs, k - 1, now0)
             b == LoopBody(l, pares[k], rs[k], now0 + k)
         IN  IF prev.raised THEN prev
             ELSE [ativos |-> prev.ativos \o b.out,
                   raised |-> LoopControl(b) = "propagate"]

\* conn.execute(INSERT OR REPLACE ...) with sqlite3's autocommit: no
\* transaction is opened and the row is durable at once
ExecuteAutocommit(d, t, ativo) == [db |-> InsertOrReplace(d, ativo), tx |-> <<>>]

\* conn.execute(INSERT OR REPLACE ...) on a connection opened by
\* sqlite3.connect(path): the first insert opens a transaction, and the rows
\* stay in the connection's working copy until conn.commit()
Execute(d, t, ativo) ==
    [db |-> d,
     tx |-> <<InsertOrReplace(IF t = <<>> THEN d ELSE t[1], ativo)>>]

InitApp ==
    /\ loader = "App"
    /\ alvo = <<"FII", MXRF11>>
    /\ resp = CritResp
    /\ res = NoRes
    /\ pc = "start"
    /\ relogio = 0
    /\ idx = 1
    /\ ativos = <<>>
    /\ log = <<>>
    /\ cpc = "idle"
    /\ db = EmptyDb
    /\ ultimo = <<>>
    /\ chamadas = 0
    /\ carregado = <<>>
    /\ AppIdle

Livre(t) == th[t].pc \in {"idle", "returned", "failed"}

\* the interval timer or the button fires atualizar_dados on a free thread
Disparar(t) ==
    /\ disparos < MaxDisparos
    /\ Livre(t)
    /\ th' = [th EXCEPT ![t] = [Idle EXCEPT !.pc = "get_ativos_info"]]
    /\ disparos' = disparos + 1
    /\ UNCHANGED <<loader, fetchVars, cycleVars, dbVars, relogio, tx, lock, sucessos>>

\* ativos = data_loader.get_ativos_info()
Coletar(t) ==
    /\ th[t].pc = "get_ativos_info"
    /\ LET n == Len(AppCiclo)
       IN  /\ \E rs \in [1..n -> CycleResponses] :
                LET c == get_ativos_info("App", AppCiclo, rs, n, relogio)
                IN  th' = [th EXCEPT ![t].ativos = c.ativos,
                                     ![t].pc = IF c.raised THEN "failed"
                                               ELSE "salvar"]
           /\ relogio' = relogio + n
    /\ UNCHANGED <<loader, fetchVars, cycleVars, dbVars, tx, lock, disparos, sucessos>>

\* one pass of the for loop of salvar_ativos: the insert of ativos[i + 1]
Inserir(t) ==
    /\ th[t].pc = "salvar"
    /\ th[t].i < Len(th[t].ativos)
    /\ lock \in {0, t}
    /\ LET e == Execute(db, tx[t], th[t].ativos[th[t].i + 1])
       IN  /\ db' = e.db
           /\ tx' = [tx EXCEPT ![t] = e.tx]
           /\ lock' = IF e.tx # <<>> THEN t ELSE lock
    /\ th' = [th EXCEPT ![t].i = th[t].i + 1]
    /\ UNCHANGED <<loader, fetchVars, cycleVars, relogio, ultimo, chamadas,
                   carregado, disparos, sucessos>>

\* the insert waits for another connection's write lock until the busy
\* timeout and raises OperationalError, which no caller catches
InserirBloqueado(t) ==
    /\ th[t].pc = "salvar"
    /\ th[t].i < Len(th[t].ativos)
    /\ lock \notin {0, t}
    /\ th' = [th EXCEPT ![t].pc = "error"]
    /\ sucessos' = Registrar(sucessos, th[t].ativos)
    /\ UNCHANGED <<loader, fetchVars, cycleVars, dbVars, relogio, tx, lock,
                   disparos>>

\* the insert raises (disk, I/O); no caller catches it
InserirFalha(t) ==
    /\ th[t].pc = "salvar"
    /\ th[t].i < Len(th[t].ativos)
    /\ th' = [th EXCEPT ![t].pc = "error"]
    /\ sucessos' = Registrar(sucessos, th[t].ativos)
    /\ UNCHANGED <<loader, fetchVars, cycleVars, dbVars, relogio, tx, lock,
                   disparos>>

\* conn.commit(); conn.close()
Commit(t) ==
    /\ th[t].pc = "salvar"
    /\ th[t].i = Len(th[t].ativos)
    /\ db' = IF tx[t] # <<>> THEN tx[t][1] ELSE db
    /\ ultimo' = Registrar(ultimo, th[t].ativos)
    /\ tx' = [tx EXCEPT ![t] = <<>>]
    /\ lock' = IF lock = t THEN 0 ELSE lock
    /\ th' = [th EXCEPT ![t].pc = "carregar"]
    /\ sucessos' = Registrar(sucessos, th[t].ativos)
    /\ UNCHANGED <<loader, fetchVars, cycleVars, relogio, chamadas, carregado,
                   disparos>>

\* df = database.carregar_ativos(); return df.to_dict('records')
CarregarRetornar(t) ==
    /\ th[t].pc = "carregar"
    /\ th' = [th EXCEPT ![t].retorno = carregar_ativos(db),
                        ![t].pc = "returned"]
    /\ UNCHANGED <<loader, fetchVars, cycleVars, dbVars, relogio, tx, lock,
                   disparos, sucessos>>

\* the connection of a call that raised was never committed nor closed: when
\* it is discarded its open transaction is rolled back and its lock released
Descartar(t) ==
    /\ th[t].pc = "error"
    /\ tx' = [tx EXCEPT ![t] = <<>>]
    /\ lock' = IF lock = t THEN 0 ELSE lock
    /\ th' = [th EXCEPT ![t].pc = "failed"]
    /\ UNCHANGED <<loader, fetchVars, cycleVars, dbVars, relogio, disparos,
                   sucessos>>

NextApp ==
    \E t \in Workers :
        \/ Disparar(t)
        \/ Coletar(t)
        \/ Inserir(t)
        \/ InserirBloqueado(t)
        \/ InserirFalha(t)
        \/ Commit(t)
        \/ CarregarRetornar(t)
        \/ Descartar(t)

SpecApp == InitApp /\ [][NextApp]_vars

(* ---------------- claims about one symbol's fetch --------------------- *)
Done == pc = "done"

Emitted == Done /\ res.out # <<>>

ProviderEmpty == ~resp.crit /\ (~resp.hist.ok \/ resp.hist.bars = <<>>)

\* C2: in RobustDataLoader.get_ativos_info a symbol whose price lookup raises
\* or returns an empty history is emitted as the deterministic fallback:
\* mock-table price (10.0 if absent), yield 6.5, last dividend 0.50, day
\* change 0.0, sector 'N/A', static fallback name (raw symbol if none).
C2_FallbackRecord ==
    (Done /\ loader = "Robust" /\ ProviderEmpty) =>
        /\ Len(res.out) = 1
        /\ res.out[1].preco_atual
             = (IF alvo[2] \in DOMAIN mock_prices THEN mock_prices[alvo[2]]
                ELSE Rat(10, 1))
        /\ res.out[1].dividend_yield = Rat(13, 2)
        /\ res.out[1].ultimo_dividendo = Rat(1, 2)
        /\ res.out[1].variacao_dia = Rat(0, 1)
        /\ res.out[1].setor = "N/A"
        /\ res.out[1].nome
             = (IF alvo[2] \in DOMAIN nomes_fallback THEN nomes_fallback[alvo[2]]
                ELSE alvo[2])

C2_Witness ==
    /\ Done /\ loader = "Robust" /\ alvo[2] = HGLG11
    /\ resp.hist.ok /\ resp.hist.bars = <<>>
    /\ Len(res.out) = 1
    /\ res.out[1].preco_atual = Rat(15830, 100)
    /\ res.out[1].nome = <<"CSHG Logistica">>

\* C5: every record RobustDataLoader produces, live or fallback, has
\* preco_atual > 0.
C5_PositivePrice ==
    (Emitted /\ loader = "Robust") => RGt(res.out[1].preco_atual, Zero)

\* C6: the payment frequency label of every emitted record is determined by
\* its category: FII 'Mensal', ETF 'Trimestral', ACAO 'Trimestral/Semestral'.
C6_FrequenciaPorTipo ==
    Emitted =>
        res.out[1].frequencia_pagamento
          = (CASE res.out[1].tipo = "FII" -> "Mensal"
               [] res.out[1].tipo = "ETF" -> "Trimestral"
               [] res.out[1].tipo = "ACAO" -> "Trimestral/Semestral"
               [] OTHER -> "N/A")

Live == Emitted /\ resp.hist.ok /\ resp.hist.bars # <<>>

LastClose == resp.hist.bars[Len(resp.hist.bars)].Close

\* C7: the dividend yield of a live record is 0.0 when the price is <= 0 or
\* the dividend history is empty or unreadable; otherwise it is the mean of
\* the last min(4, n) payments * 12 / price * 100, rounded to 2 decimals.
C7_YieldFormula ==
    Live =>
        res.out[1].dividend_yield
          = (IF ~RGt(LastClose, Zero) \/ ~resp.divs.ok \/ resp.divs.v = <<>>
             THEN Rat(0, 1)
             ELSE LET n == Len(resp.divs.v)
                      k == IF n < 4 THEN n ELSE 4
                      last == [i \in 1..k |-> resp.divs.v[n - k + i]]
                  IN  Round2(RDiv(RMul(RMul(RDiv(Sum(last), Rat(k, 1)), Rat(12, 1)),
                                       Rat(100, 1)),
                                  LastClose)))

\* the same statement restricted to RobustDataLoader, which rounds
C7_YieldFormulaRobust == loader = "Robust" => C7_YieldFormula

(* ------------------- claims about a collection cycle ------------------ *)
CyclePairs == Pairs(ativos_monitorados(loader))

Display(simbolo) == Replace(simbolo, SA, <<>>)

\* C4: one call of get_ativos_info attempts every (category, symbol) pair
\* exactly once, in registry order, whatever happened to earlier symbols; no
\* exception leaves get_ativos_info or stops the later symbols; the snapshot
\* holds at most one record per symbol, only for symbols whose fetch succeeded.
C4_EveryPairOnce ==
    /\ cpc # "raised"
    /\ Len(log) = idx - 1
    /\ Len(log) <= Len(CyclePairs)
    /\ \A i \in DOMAIN log : log[i].par = CyclePairs[i]
    /\ (cpc = "returned") => (Len(log) = Len(CyclePairs))
    /\ \A i, j \in DOMAIN ativos : ativos[i].simbolo = ativos[j].simbolo => i = j
    /\ {ativos[i].simbolo : i \in DOMAIN ativos}
         = {Display(log[i].par[2]) : i \in {j \in DOMAIN log : log[j].emitted}}

C4_Witness ==
    /\ cpc = "returned"
    /\ Len(log) = Len(CyclePairs)
    /\ log[1].raised
    /\ ~log[1].emitted
    /\ log[Len(log)].emitted
    /\ Len(ativos) >= 1

(* ------------------------ claims about the store ---------------------- *)
RowSimbolos == {db.rows[i].r.simbolo : i \in DOMAIN db.rows}

\* C8: after any sequence of salvar_ativos calls the table holds exactly one
\* row for each symbol ever written, with the values of the most recent write
\* of that symbol; no earlier observation is kept.
C8_UpsertLatestWins ==
    /\ RowSimbolos = DOMAIN ultimo
    /\ \A i, j \in DOMAIN db.rows :
          db.rows[i].r.simbolo = db.rows[j].r.simbolo => i = j
    /\ \A i \in DOMAIN db.rows : db.rows[i].r = ultimo[db.rows[i].r.simbolo]

C8_Witness ==
    /\ chamadas = 2
    /\ Len(db.rows) = 1
    /\ db.seq = 4
    /\ db.rows[1].r.atualizado_em = 2

\* C9: carregar_ativos returns all rows of the store, and each row's
\* dividend_yield is >= that of the row after it.
C9_Sorted(d) ==
    LET out == carregar_ativos(d)
    IN  /\ Len(out) = Len(d.rows)
        /\ {out[i] : i \in DOMAIN out} = {d.rows[i] : i \in DOMAIN d.rows}
        /\ \A i \in 1..(Len(out) - 1) :
              RGe(out[i].r.dividend_yield, out[i + 1].r.dividend_yield)

C9_CarregarSorted ==
    /\ C9_Sorted(db)
    /\ \A i \in 1..(Len(carregado) - 1) :
          RGe(carregado[i].r.dividend_yield, carregado[i + 1].r.dividend_yield)

C9_Witness ==
    /\ Len(carregado) = 2
    /\ carregado = carregar_ativos(db)
    /\ carregado[1].id > carregado[2].id
    /\ RGt(carregado[1].r.dividend_yield, carregado[2].r.dividend_yield)

(* ---------------- claims about the application's cycles --------------- *)
Unavailable(r) == ~r.crit /\ (~r.hist.ok \/ r.hist.bars = <<>>)

\* C3: in a cycle of the application's DataLoader a symbol whose provider is
\* unreachable or answers with an empty history still has a record in the
\* snapshot, and the cycle does not end in an error.
C3_UnavailableStillEmitted ==
    (loader = "App" /\ cpc \in {"returned", "raised"}) =>
        /\ cpc = "returned"
        /\ \A i \in DOMAIN log :
              Unavailable(log[i].resp) =>
                  \E j \in DOMAIN ativos :
                      ativos[j].simbolo = Display(log[i].par[2])

EmVoo(t) == th[t].pc \in {"get_ativos_info", "salvar", "carregar"}

Escrevendo(t) == tx[t] # <<>>

\* the store writes of two calls do not interleave: at most one connection
\* has inserted rows it has not yet committed or rolled back
C1_WritesSerialized ==
    \A t, u \in Workers : (Escrevendo(t) /\ Escrevendo(u)) => t = u

\* C1: overlapping refresh triggers are rejected or queued: at most one
\* atualizar_dados call is in flight at any time, and the store writes of two
\* cycles do not interleave.
C1_OneCycleAtATime ==
    /\ \A t, u \in Workers : (EmVoo(t) /\ EmVoo(u)) => t = u
    /\ C1_WritesSerialized

Falhou(t) == th[t].pc \in {"error", "failed"}

\* C10: when an insert of salvar_ativos raises, the exception leaves
\* atualizar_dados (the call returns nothing and never goes on to load), and
\* none of that call's records is committed: the step that fails and the
\* discarding of its connection leave the committed table untouched.
C10_FailureNotCommitted ==
    /\ [](\A t \in Workers :
            Falhou(t) =>
                /\ th[t].retorno = <<>>
                /\ \A i \in DOMAIN th[t].ativos, j \in DOMAIN db.rows :
                      db.rows[j].r # th[t].ativos[i])
    /\ [][\A t \in Workers :
            /\ (th[t].pc = "error") => (th'[t].pc \in {"error", "failed"})
            /\ (Falhou(t)' /\ th'[t] # th[t] /\ th[t].pc \in {"salvar", "error"})
                  => (db' = db)]_vars

C10_Witness ==
    \E t \in Workers :
        /\ th[t].pc = "failed"
        /\ th[t].i = 1
        /\ Len(th[t].ativos) = 2
        /\ tx[t] = <<>>
        /\ db = EmptyDb

(* ------------- claims about metadata and the inter-call delay --------- *)
MetadataOnlyFails ==
    /\ ~resp.crit
    /\ resp.hist.ok
    /\ resp.hist.bars # <<>>
    /\ ~resp.info.ok

\* C11: in both loaders, when the price history is usable and only the
\* name/sector lookup fails, a record is still emitted for the symbol, with
\* the static fallback name (the raw symbol if there is none) and sector 'N/A'.
C11_MetadataFailureKeepsRecord ==
    (Done /\ MetadataOnlyFails) =>
        /\ Len(res.out) = 1
        /\ res.out[1].nome
             = (IF alvo[2] \in DOMAIN nomes_fallback THEN nomes_fallback[alvo[2]]
                ELSE alvo[2])
        /\ res.out[1].setor = "N/A"

\* the same statement restricted to RobustDataLoader, whose inner try covers
\* the lookup
C11_MetadataFailureRobust == (loader = "Robust") => C11_MetadataFailureKeepsRecord

\* C12: on every path of get_ativos_info, the raising and the no-record
\* paths included, the delay runs after a symbol's fetch and before the next
\* symbol's fetch begins.
C12_DelayBetweenFetches ==
    \A i \in DOMAIN log : (i < Len(log)) => log[i].slept

\* the delay does run after every pass that did not raise, record or not
C12_DelayUnlessRaised ==
    \A i \in DOMAIN log : (~log[i].raised) => log[i].slept

(* ------------------- claims about accumulated cycles ------------------ *)
Retorna(t) == th[t].pc = "carregar" /\ th'[t].pc = "returned"

\* what a call returns holds exactly one record per symbol of the map m,
\* that symbol's record in m
RetornoIs(ret, m) ==
    /\ {ret[i].r.simbolo : i \in DOMAIN ret} = DOMAIN m
    /\ \A i, j \in DOMAIN ret : (ret[i].r.simbolo = ret[j].r.simbolo) => (i = j)
    /\ \A i \in DOMAIN ret : ret[i].r = m[ret[i].r.simbolo]

\* C13: what atualizar_dados returns is the accumulated store: exactly one
\* record for every symbol that succeeded in at least one cycle, taken from
\* the most recent cycle in which it succeeded (so a symbol that failed in
\* the latest cycle is returned with its stale values), and the symbols of
\* the store never shrink.
C13_ReturnsEverySuccess ==
    [][/\ \A t \in Workers : Retorna(t) => RetornoIs(th'[t].retorno, sucessos')
       /\ RowSimbolos \subseteq RowSimbolos']_vars

\* C13 as amended: the cycles that count are those whose salvar_ativos
\* committed; the record returned for a symbol is the one of the latest
\* committed cycle whose snapshot held it.
C13_ReturnsEveryCommittedSuccess ==
    [][/\ \A t \in Workers : Retorna(t) => RetornoIs(th'[t].retorno, ultimo')
       /\ RowSimbolos \subseteq RowSimbolos']_vars

\* a call returns a symbol its own cycle failed to fetch, with the record an
\* earlier cycle stored
C13_Witness ==
    \E t \in Workers :
        /\ th[t].pc = "returned"
        /\ Len(th[t].ativos) = 1
        /\ Len(th[t].retorno) = 2
        /\ \E i \in DOMAIN th[t].retorno :
              /\ th[t].retorno[i].r.simbolo # th[t].ativos[1].simbolo
              /\ th[t].retorno[i].r.atualizado_em < th[t].ativos[1].atualizado_em

====
